---- MODULE Spec2Model ----
(***************************************************************************)
(* Model of wagecode.py: the salary / inflation trajectory engine and the  *)
(* real-terms erosion metric of the Streamlit dashboard.                    *)
(*                                                                         *)
(* Python's float is IEEE-754 binary64.  The script's arithmetic is        *)
(* modelled bit-exactly: a float is a sign, a 53-bit mantissa and a binary *)
(* exponent, and every operation rounds to nearest, ties to even.  TLC's   *)
(* integers are 32 bits wide, so a mantissa is a little-endian sequence of *)
(* limbs in base 2^14.  Subnormals, infinities and NaN are not modelled:   *)
(* every magnitude the script produces lies between 1e-17 and 1e7.         *)
(***************************************************************************)
EXTENDS Integers, Sequences, FiniteSets, TLC

\* ---------------------------------------------------------------------
\* State: the widgets the calculation reads and the script's globals
\* after a run.  The show_* checkboxes only select chart traces.
\* ---------------------------------------------------------------------
VARIABLES start_salary, apply_2022_adj, apply_2023_adj, apply_2024_adj,
          erosion_index,
          sal_successful, m_successful, sal_verystrong, m_verystrong,
          sal_outstanding, m_outstanding,
          inf_cpih, m_cpih, inf_cpi, m_cpi, inf_rpi, m_rpi,
          ref_traj, real_successful, real_verystrong, real_outstanding,
          nominal_trajectory, inflation_trajectory, real_change

\* ---------------------------------------------------------------------
\* Natural numbers of arbitrary size (limbs, least significant first;
\* no high zero limb; zero is the empty sequence)
\* ---------------------------------------------------------------------
LimbBits == 14

Limb == 2 ^ LimbBits

MantBits == 53

Pow2(k) == 2 ^ k

RECURSIVE BNTrim(_)
BNTrim(a) ==
  IF a = <<>> THEN <<>>
  ELSE IF a[Len(a)] = 0 THEN BNTrim(SubSeq(a, 1, Len(a) - 1))
  ELSE a

RECURSIVE BNFromInt(_)
BNFromInt(n) ==
  IF n = 0 THEN <<>> ELSE <<n % Limb>> \o BNFromInt(n \div Limb)

BNCmp(a, b) ==
  IF Len(a) # Len(b) THEN (IF Len(a) < Len(b) THEN -1 ELSE 1)
  ELSE IF a = b THEN 0
  ELSE LET top == CHOOSE i \in 1..Len(a) :
                     /\ a[i] # b[i]
                     /\ \A j \in (i + 1)..Len(a) : a[j] = b[j]
       IN  IF a[top] < b[top] THEN -1 ELSE 1

RECURSIVE BNAddC(_, _, _)
BNAddC(a, b, c) ==
  IF a = <<>> /\ b = <<>> THEN (IF c = 0 THEN <<>> ELSE <<c>>)
  ELSE LET x == IF a = <<>> THEN 0 ELSE Head(a)
           y == IF b = <<>> THEN 0 ELSE Head(b)
           s == x + y + c
       IN  <<s % Limb>> \o BNAddC(IF a = <<>> THEN <<>> ELSE Tail(a),
                                  IF b = <<>> THEN <<>> ELSE Tail(b),
                                  s \div Limb)

BNAdd(a, b) == BNAddC(a, b, 0)

\* a - b for a >= b
RECURSIVE BNSubB(_, _, _)
BNSubB(a, b, br) ==
  IF a = <<>> THEN <<>>
  ELSE LET y == IF b = <<>> THEN 0 ELSE Head(b)
           d == Head(a) - y - br
       IN  <<IF d < 0 THEN d + Limb ELSE d>>
             \o BNSubB(Tail(a), IF b = <<>> THEN <<>> ELSE Tail(b),
                       IF d < 0 THEN 1 ELSE 0)

BNSub(a, b) == BNTrim(BNSubB(a, b, 0))

\* a * d for 0 <= d <= Limb
RECURSIVE BNMulSmallC(_, _, _)
BNMulSmallC(a, d, c) ==
  IF a = <<>> THEN (IF c = 0 THEN <<>> ELSE <<c>>)
  ELSE LET p == Head(a) * d + c
       IN  <<p % Limb>> \o BNMulSmallC(Tail(a), d, p \div Limb)

BNMulSmall(a, d) == IF d = 0 THEN <<>> ELSE BNTrim(BNMulSmallC(a, d, 0))

BNShiftLimbs(a, n) == IF a = <<>> THEN <<>> ELSE [i \in 1..n |-> 0] \o a

RECURSIVE BNMul(_, _)
BNMul(a, b) ==
  IF b = <<>> \/ a = <<>> THEN <<>>
  ELSE BNAdd(BNMulSmall(a, Head(b)), BNShiftLimbs(BNMul(a, Tail(b)), 1))

\* a * 2^k
BNShl(a, k) ==
  BNShiftLimbs(BNMulSmall(a, Pow2(k % LimbBits)), k \div LimbBits)

\* floor(a / d) for 1 <= d <= Limb, high limb first
RECURSIVE BNDivSmallR(_, _, _)
BNDivSmallR(a, d, r) ==
  IF a = <<>> THEN <<>>
  ELSE LET cur == r * Limb + a[Len(a)]
       IN  BNDivSmallR(SubSeq(a, 1, Len(a) - 1), d, cur % d) \o <<cur \div d>>

BNDivSmall(a, d) == BNTrim(BNDivSmallR(a, d, 0))

\* floor(a / 2^k)
BNShr(a, k) ==
  IF k \div LimbBits >= Len(a) THEN <<>>
  ELSE BNDivSmall(SubSeq(a, k \div LimbBits + 1, Len(a)), Pow2(k % LimbBits))

RECURSIVE IntBitLen(_)
IntBitLen(n) == IF n = 0 THEN 0 ELSE 1 + IntBitLen(n \div 2)

BNBitLen(a) ==
  IF a = <<>> THEN 0 ELSE (Len(a) - 1) * LimbBits + IntBitLen(a[Len(a)])

BNBit(a, i) ==
  IF i \div LimbBits >= Len(a) THEN 0
  ELSE (a[i \div LimbBits + 1] \div Pow2(i % LimbBits)) % 2

\* the k low bits of a are all zero
BNLowZero(a, k) ==
  /\ \A j \in 1..(k \div LimbBits) : j > Len(a) \/ a[j] = 0
  /\ \/ k \div LimbBits >= Len(a)
     \/ a[k \div LimbBits + 1] % Pow2(k % LimbBits) = 0

\* quotient digit floor(cur / d) for cur < d * Limb, d's high limb >= Limb/2
RECURSIVE BNFixDigit(_, _, _)
BNFixDigit(cur, d, q) ==
  IF BNCmp(BNMulSmall(d, q), cur) > 0 THEN BNFixDigit(cur, d, q - 1) ELSE q

BNDigit(cur, d) ==
  IF BNCmp(cur, d) < 0 THEN 0
  ELSE LET L  == Len(d)
           hi == IF Len(cur) > L THEN cur[L + 1] ELSE 0
           est == (hi * Limb + cur[L]) \div d[L]
       IN  BNFixDigit(cur, d, IF est > Limb - 1 THEN Limb - 1 ELSE est)

\* long division, high limb of a first: <<quotient, remainder>>
RECURSIVE BNDivModR(_, _, _)
BNDivModR(a, d, r) ==
  IF a = <<>> THEN <<<<>>, r>>
  ELSE LET cur  == BNTrim(<<a[Len(a)]>> \o r)
           q    == BNDigit(cur, d)
           rest == BNDivModR(SubSeq(a, 1, Len(a) - 1), d,
                             BNSub(cur, BNMulSmall(d, q)))
       IN  <<rest[1] \o <<q>>, rest[2]>>

BNDivMod(a, d) ==
  LET qr == BNDivModR(a, d, <<>>) IN <<BNTrim(qr[1]), qr[2]>>

\* ---------------------------------------------------------------------
\* Python float (binary64): sign * man * 2^exp with 2^52 <= man < 2^53,
\* or man = <<>> for 0.0
\* ---------------------------------------------------------------------
FloatZero == [sign |-> 1, man |-> <<>>, exp |-> 0]

\* Python evaluates the operands of an operation once, before the
\* operation: an operand is bound to its value with x \in {operand}, and
\* Value takes the result out of the singleton set.
Value(S) == CHOOSE r \in S : TRUE

\* round sign * n * 2^e (plus a nonzero tail below n when sticky) to
\* nearest, ties to even
round_up(sign, q, e) ==
  IF BNBitLen(q) > MantBits
  THEN [sign |-> sign, man |-> BNShr(q, 1), exp |-> e + 1]
  ELSE [sign |-> sign, man |-> q, exp |-> e]

round_shifted(sign, n, q, k, e, sticky) ==
  IF BNBit(n, k - 1) = 1 /\ (sticky \/ ~BNLowZero(n, k - 1) \/ q[1] % 2 = 1)
  THEN Value({round_up(sign, q2, e + k) : q2 \in {BNAdd(q, <<1>>)}})
  ELSE [sign |-> sign, man |-> q, exp |-> e + k]

round_nat(sign, n, L, e, sticky) ==
  IF L = 0 THEN FloatZero
  ELSE IF L <= MantBits
  THEN [sign |-> sign, man |-> BNShl(n, MantBits - L), exp |-> e - (MantBits - L)]
  ELSE Value({round_shifted(sign, n, q, L - MantBits, e, sticky) :
                q \in {BNShr(n, L - MantBits)}})

float_round(sign, nat, e, sticky) ==
  Value({round_nat(sign, n, BNBitLen(n), e, s) : n \in {nat}, s \in {sticky}})

\* int -> float conversion (exact below 2^53)
float_from_int(n) ==
  float_round(IF n < 0 THEN -1 ELSE 1, BNFromInt(IF n < 0 THEN -n ELSE n), 0, FALSE)

float_neg(a) == IF a.man = <<>> THEN a ELSE [a EXCEPT !.sign = -a.sign]

\* am * 2^e and bm * 2^e are the operands' magnitudes
add_aligned(asign, am, bsign, bm, c, e) ==
  IF asign # bsign /\ c = 0 THEN FloatZero
  ELSE float_round(IF asign = bsign \/ c > 0 THEN asign ELSE bsign,
                   IF asign = bsign THEN BNAdd(am, bm)
                   ELSE IF c > 0 THEN BNSub(am, bm) ELSE BNSub(bm, am),
                   e, FALSE)

add_at(a, b, e) ==
  Value({add_aligned(a.sign, am, b.sign, bm, BNCmp(am, bm), e) :
           am \in {BNShl(a.man, a.exp - e)}, bm \in {BNShl(b.man, b.exp - e)}})

add_values(a, b) ==
  IF a.man = <<>> THEN b
  ELSE IF b.man = <<>> THEN a
  ELSE add_at(a, b, IF a.exp < b.exp THEN a.exp ELSE b.exp)

float_add(a, b) == Value({add_values(x, y) : x \in {a}, y \in {b}})

float_sub(a, b) == Value({add_values(x, float_neg(y)) : x \in {a}, y \in {b}})

mul_values(a, b) ==
  IF a.man = <<>> \/ b.man = <<>> THEN FloatZero
  ELSE float_round(a.sign * b.sign, BNMul(a.man, b.man), a.exp + b.exp, FALSE)

float_mul(a, b) == Value({mul_values(x, y) : x \in {a}, y \in {b}})

\* a / b raises ZeroDivisionError when b is 0.0
ZeroDivisionError == [error |-> "ZeroDivisionError"]

quotient_round(sign, qr, e) == float_round(sign, qr[1], e, qr[2] # <<>>)

truediv_values(a, b) ==
  IF b.man = <<>> THEN ZeroDivisionError
  ELSE IF a.man = <<>> THEN FloatZero
  ELSE Value({quotient_round(a.sign * b.sign, qr, a.exp - b.exp - (MantBits + 3)) :
                qr \in {BNDivMod(BNShl(a.man, MantBits + 6), BNShl(b.man, 3))}})

float_truediv(a, b) == Value({truediv_values(x, y) : x \in {a}, y \in {b}})

float_signum(a) == IF a.man = <<>> THEN 0 ELSE a.sign

\* -1, 0, 1 as a < b, a = b, a > b
cmp_values(a, b) ==
  IF float_signum(a) # float_signum(b)
  THEN (IF float_signum(a) < float_signum(b) THEN -1 ELSE 1)
  ELSE IF float_signum(a) = 0 THEN 0
  ELSE LET mag == IF a.exp # b.exp THEN (IF a.exp < b.exp THEN -1 ELSE 1)
                  ELSE BNCmp(a.man, b.man)
       IN  a.sign * mag

float_cmp(a, b) == Value({cmp_values(x, y) : x \in {a}, y \in {b}})

float_le(a, b) == float_cmp(a, b) <= 0

float_lt(a, b) == float_cmp(a, b) < 0

float_gt(a, b) == float_cmp(a, b) > 0

\* a decimal literal with two places, given in hundredths (3.25 is 325)
float_literal(hundredths) ==
  float_truediv(float_from_int(hundredths), float_from_int(100))

\* ---------------------------------------------------------------------
\* The script's data
\* ---------------------------------------------------------------------
years == <<2020, 2021, 2022, 2023, 2024, 2025>>

SalaryModes == {"successful", "verystrong", "outstanding"}

IndexModes == {"cpih", "cpi", "rpi"}

Modes == SalaryModes \cup IndexModes

ErosionIndices == {"CPIH", "CPI", "RPI"}

\* the tables' literals in hundredths (6.2 is 620)
inflation_hundredths ==
  [CPIH |-> <<100, 620, 890, 380, 340>>,
   CPI  |-> <<70, 700, 1010, 320, 260>>,
   RPI  |-> <<150, 900, 1350, 430, 320>>]

pay_hundredths ==
  <<<<325, 275, 230>>, <<325, 275, 230>>, <<370, 270, 230>>,
    <<370, 270, 230>>, <<370, 270, 230>>>>

\* percentage change year on year; there is no entry for 2020
inflation_data ==
  [index \in ErosionIndices |->
     [y \in 2021..2025 |-> float_literal(inflation_hundredths[index][y - 2020])]]

\* {Year: [Outstanding, Very Strong, Successful]}
pay_rates ==
  [y \in 2021..2025 |->
     [tier \in 1..3 |-> float_literal(pay_hundredths[y - 2020][tier])]]

\* ---------------------------------------------------------------------
\* calculate_trajectory
\* ---------------------------------------------------------------------
\* (variant) the Very Strong and Successful columns exchanged
tier_index_exchanged(mode) ==
  IF mode = "outstanding" THEN 1 ELSE IF mode = "verystrong" THEN 3 ELSE 2

\* Indices: 1 = Outstanding, 2 = Very Strong, 3 = Successful
tier_index(mode) ==
  IF mode = "outstanding" THEN 1 ELSE IF mode = "verystrong" THEN 2 ELSE 3

\* The three "if year == ..." blocks, in the order the script runs them,
\* each preceded by a variant of it.
\* (variant) the 2022 rule applied whatever its checkbox says
adjustment_2022_unchecked(adj, year, current_val, a22) ==
  IF year = 2022
  THEN IF float_le(current_val, float_from_int(30000)) THEN float_from_int(2)
       ELSE IF float_le(current_val, float_from_int(50000)) THEN float_from_int(1)
       ELSE adj
  ELSE adj

adjustment_2022(adj, year, current_val, a22) ==
  IF year = 2022 /\ a22
  THEN IF float_le(current_val, float_from_int(30000)) THEN float_from_int(2)
       ELSE IF float_le(current_val, float_from_int(50000)) THEN float_from_int(1)
       ELSE adj
  ELSE adj

\* (variant) the 2023 rule applied whatever its checkbox says
adjustment_2023_unchecked(adj, year, a23) ==
  IF year = 2023 THEN float_from_int(2) ELSE adj

adjustment_2023(adj, year, a23) ==
  IF year = 2023 /\ a23 THEN float_from_int(2) ELSE adj

\* (variant) -10.0 typed for -1.0
adjustment_2024_minus_ten(adj, year, current_val, a24) ==
  IF year = 2024 /\ a24
  THEN IF float_lt(current_val, float_from_int(37000)) THEN float_from_int(1)
       ELSE IF float_gt(current_val, float_from_int(50000)) THEN float_from_int(-10)
       ELSE adj
  ELSE adj

adjustment_2024(adj, year, current_val, a24) ==
  IF year = 2024 /\ a24
  THEN IF float_lt(current_val, float_from_int(37000)) THEN float_from_int(1)
       ELSE IF float_gt(current_val, float_from_int(50000)) THEN float_from_int(-1)
       ELSE adj
  ELSE adj

\* (variant) the percentage not divided by 100
compound_no_percent(current_val, pct_change) ==
  float_mul(current_val, float_add(float_from_int(1), pct_change))

\* current_val * (1 + pct_change / 100)
compound(current_val, pct_change) ==
  float_mul(current_val,
            float_add(float_from_int(1),
                      float_truediv(pct_change, float_from_int(100))))

\* (variant) the thresholds tested on the value after this year's base raise
salary_pct_change_after_raise(mode, year, current_val, a22, a23, a24) ==
  Value({float_add(pay_rates[year][tier_index(mode)],
                   adjustment_2024(
                     adjustment_2023(
                       adjustment_2022(FloatZero, year, raised, a22),
                       year, a23),
                     year, raised, a24)) :
           raised \in {compound(current_val, pay_rates[year][tier_index(mode)])}})

salary_pct_change(mode, year, current_val, a22, a23, a24) ==
  LET base == pay_rates[year][tier_index(mode)]
      adj  == adjustment_2024(
                adjustment_2023(
                  adjustment_2022(FloatZero, year, current_val, a22),
                  year, a23),
                year, current_val, a24)
  IN  float_add(base, adj)

index_pct_change(mode, year) ==
  inflation_data[IF mode = "cpih" THEN "CPIH"
                 ELSE IF mode = "cpi" THEN "CPI" ELSE "RPI"][year]

pct_change_of(mode, year, current_val, a22, a23, a24) ==
  IF mode \in SalaryModes
  THEN salary_pct_change(mode, year, current_val, a22, a23, a24)
  ELSE index_pct_change(mode, year)

\* the loop body: <<pct_change, the new current_val>>
loop_body(mode, year, current_val, a22, a23, a24) ==
  Value({<<pct, compound(current_val, pct)>> :
           pct \in {pct_change_of(mode, year, current_val, a22, a23, a24)}})

RECURSIVE trajectory_loop(_, _, _, _, _, _, _, _)
trajectory_loop(mode, i, current_val, trajectory, meta_changes, a22, a23, a24) ==
  IF i > Len(years) THEN <<trajectory, meta_changes>>
  ELSE Value({trajectory_loop(mode, i + 1, step[2], Append(t, step[2]),
                              Append(m, step[1]), a22, a23, a24) :
                step \in {loop_body(mode, years[i], current_val, a22, a23, a24)},
                t \in {trajectory}, m \in {meta_changes}})

\* (variant) current_val and trajectory initialised to 0 instead of start_salary
calculate_trajectory_from_zero(mode, salary, a22, a23, a24) ==
  trajectory_loop(mode, 2, FloatZero, <<FloatZero>>, <<FloatZero>>, a22, a23, a24)

\* (variant) an index trajectory's meta_changes starting with a table rate
calculate_trajectory_base_rate(mode, salary, a22, a23, a24) ==
  trajectory_loop(mode, 2, float_from_int(salary), <<float_from_int(salary)>>,
                  <<IF mode \in IndexModes THEN index_pct_change(mode, 2021)
                    ELSE FloatZero>>, a22, a23, a24)

\* <<trajectory, meta_changes>>.  trajectory[1] is the int start_salary in
\* the script; it is held here as the float of the same value.
calculate_trajectory(mode, salary, a22, a23, a24) ==
  trajectory_loop(mode, 2, float_from_int(salary), <<float_from_int(salary)>>,
                  <<FloatZero>>, a22, a23, a24)

\* ---------------------------------------------------------------------
\* calculate_real_term_change
\* ---------------------------------------------------------------------
\* (variant) the index not rebased by start_salary
real_term_pct_not_rebased(nominal, inflation, salary) ==
  IF salary = 0 \/ inflation.man = <<>> THEN ZeroDivisionError
  ELSE float_mul(float_truediv(float_sub(float_truediv(nominal, inflation),
                                         float_from_int(salary)),
                               float_from_int(salary)),
                 float_from_int(100))

\* one iteration of the loop; both divisions raise on a zero divisor
real_term_pct(nominal, inflation, salary) ==
  IF salary = 0 \/ inflation.man = <<>> THEN ZeroDivisionError
  ELSE
  LET real_value == float_truediv(nominal,
                                  float_truediv(inflation, float_from_int(salary)))
  IN  float_mul(float_truediv(float_sub(real_value, float_from_int(salary)),
                              float_from_int(salary)),
                float_from_int(100))

\* the list real_change, or the exception that ends the script
calculate_real_term_change(nominal, inflation, salary) ==
  LET rc == [i \in 1..Len(years) |->
               real_term_pct(nominal[i], inflation[i], salary)]
  IN  IF \E i \in 1..Len(years) : rc[i] = ZeroDivisionError
      THEN ZeroDivisionError ELSE rc

select_ref_traj(index, cpih, cpi, rpi) ==
  IF index = "CPIH" THEN cpih ELSE IF index = "CPI" THEN cpi ELSE rpi

\* start salaries typed into the number_input (any int may be typed; the
\* first NumSalaries of these are tried)
SalarySamples == <<40000, 29300, 52000, 48700, 30000, 36000, 61000>>

NumSalaries == 5

SalaryChoices == {SalarySamples[k] : k \in 1..NumSalaries}

\* ---------------------------------------------------------------------
\* One run of the script: Streamlit runs it top to bottom on every widget
\* change, with the widgets' current values
\* ---------------------------------------------------------------------
\* calculate_trajectory tabulated over the inputs that are tried, so that
\* TLC computes each trajectory once
trajectory_table ==
  [mode \in Modes, salary \in SalaryChoices,
   a22 \in BOOLEAN, a23 \in BOOLEAN, a24 \in BOOLEAN |->
     calculate_trajectory(mode, salary, a22, a23, a24)] @@ <<>>

\* (variant) inf_cpih bound to the reference trajectory
script_globals_aliased(t, ref, real) ==
  [sal_successful   |-> t["successful"][1],  m_successful  |-> t["successful"][2],
   sal_verystrong   |-> t["verystrong"][1],  m_verystrong  |-> t["verystrong"][2],
   sal_outstanding  |-> t["outstanding"][1], m_outstanding |-> t["outstanding"][2],
   inf_cpih         |-> ref,                 m_cpih        |-> t["cpih"][2],
   inf_cpi          |-> t["cpi"][1],         m_cpi         |-> t["cpi"][2],
   inf_rpi          |-> t["rpi"][1],         m_rpi         |-> t["rpi"][2],
   ref_traj         |-> ref,
   real_successful  |-> real["successful"],
   real_verystrong  |-> real["verystrong"],
   real_outstanding |-> real["outstanding"]]

\* the globals a run leaves, from the six trajectories t and the erosion
\* series real of the three salary trajectories
script_globals(t, ref, real) ==
  [sal_successful   |-> t["successful"][1],  m_successful  |-> t["successful"][2],
   sal_verystrong   |-> t["verystrong"][1],  m_verystrong  |-> t["verystrong"][2],
   sal_outstanding  |-> t["outstanding"][1], m_outstanding |-> t["outstanding"][2],
   inf_cpih         |-> t["cpih"][1],        m_cpih        |-> t["cpih"][2],
   inf_cpi          |-> t["cpi"][1],         m_cpi         |-> t["cpi"][2],
   inf_rpi          |-> t["rpi"][1],         m_rpi         |-> t["rpi"][2],
   ref_traj         |-> ref,
   real_successful  |-> real["successful"],
   real_verystrong  |-> real["verystrong"],
   real_outstanding |-> real["outstanding"]]

script_erosion(t, ref, salary) ==
  Value({script_globals(t, ref, real) :
           real \in {[mode \in SalaryModes |->
                        calculate_real_term_change(t[mode][1], ref, salary)] @@ <<>>}})

Script(salary, a22, a23, a24, index) ==
  Value({script_erosion(t, select_ref_traj(index, t["cpih"][1], t["cpi"][1],
                                           t["rpi"][1]), salary) :
           t \in {[mode \in Modes |->
                     trajectory_table[mode, salary, a22, a23, a24]] @@ <<>>}})

\* the runs tabulated in the same way
script_table ==
  [salary \in SalaryChoices, a22 \in BOOLEAN, a23 \in BOOLEAN, a24 \in BOOLEAN,
   index \in ErosionIndices |-> Script(salary, a22, a23, a24, index)] @@ <<>>

widgets == <<start_salary, apply_2022_adj, apply_2023_adj, apply_2024_adj,
             erosion_index>>

trajectory_globals == <<sal_successful, m_successful, sal_verystrong, m_verystrong,
                  sal_outstanding, m_outstanding,
                  inf_cpih, m_cpih, inf_cpi, m_cpi, inf_rpi, m_rpi>>

erosion_globals == <<ref_traj, real_successful, real_verystrong, real_outstanding>>

direct_call == <<nominal_trajectory, inflation_trajectory, real_change>>

vars == <<start_salary, apply_2022_adj, apply_2023_adj, apply_2024_adj,
          erosion_index,
          sal_successful, m_successful, sal_verystrong, m_verystrong,
          sal_outstanding, m_outstanding,
          inf_cpih, m_cpih, inf_cpi, m_cpi, inf_rpi, m_rpi,
          ref_traj, real_successful, real_verystrong, real_outstanding,
          nominal_trajectory, inflation_trajectory, real_change>>

\* the globals hold the result of the run
Ran(run) ==
  \E out \in {run} :
    /\ sal_successful = out.sal_successful /\ m_successful = out.m_successful
    /\ sal_verystrong = out.sal_verystrong /\ m_verystrong = out.m_verystrong
    /\ sal_outstanding = out.sal_outstanding /\ m_outstanding = out.m_outstanding
    /\ inf_cpih = out.inf_cpih /\ m_cpih = out.m_cpih
    /\ inf_cpi = out.inf_cpi /\ m_cpi = out.m_cpi
    /\ inf_rpi = out.inf_rpi /\ m_rpi = out.m_rpi
    /\ ref_traj = out.ref_traj
    /\ real_successful = out.real_successful
    /\ real_verystrong = out.real_verystrong
    /\ real_outstanding = out.real_outstanding

RanNext(run) ==
  \E out \in {run} :
    /\ sal_successful' = out.sal_successful /\ m_successful' = out.m_successful
    /\ sal_verystrong' = out.sal_verystrong /\ m_verystrong' = out.m_verystrong
    /\ sal_outstanding' = out.sal_outstanding /\ m_outstanding' = out.m_outstanding
    /\ inf_cpih' = out.inf_cpih /\ m_cpih' = out.m_cpih
    /\ inf_cpi' = out.inf_cpi /\ m_cpi' = out.m_cpi
    /\ inf_rpi' = out.inf_rpi /\ m_rpi' = out.m_rpi
    /\ ref_traj' = out.ref_traj
    /\ real_successful' = out.real_successful
    /\ real_verystrong' = out.real_verystrong
    /\ real_outstanding' = out.real_outstanding

\* first run: number_input value=40000, the checkboxes value=True, the
\* radio on its first option
Init ==
  /\ start_salary = 40000
  /\ apply_2022_adj = TRUE /\ apply_2023_adj = TRUE /\ apply_2024_adj = TRUE
  /\ erosion_index = "CPIH"
  /\ Ran(script_table[40000, TRUE, TRUE, TRUE, "CPIH"])
  /\ nominal_trajectory = <<>> /\ inflation_trajectory = <<>> /\ real_change = <<>>

\* a widget change reruns the whole script with the new widget values
Rerun(salary, a22, a23, a24, index) ==
  /\ start_salary' = salary
  /\ apply_2022_adj' = a22 /\ apply_2023_adj' = a23 /\ apply_2024_adj' = a24
  /\ erosion_index' = index
  /\ RanNext(script_table[salary, a22, a23, a24, index])
  /\ UNCHANGED direct_call

SetStartSalary(v) ==
  /\ v # start_salary
  /\ Rerun(v, apply_2022_adj, apply_2023_adj, apply_2024_adj, erosion_index)

Toggle2022 ==
  Rerun(start_salary, ~apply_2022_adj, apply_2023_adj, apply_2024_adj, erosion_index)

Toggle2023 ==
  Rerun(start_salary, apply_2022_adj, ~apply_2023_adj, apply_2024_adj, erosion_index)

Toggle2024 ==
  Rerun(start_salary, apply_2022_adj, apply_2023_adj, ~apply_2024_adj, erosion_index)

SelectErosionIndex(e) ==
  /\ e # erosion_index
  /\ Rerun(start_salary, apply_2022_adj, apply_2023_adj, apply_2024_adj, e)

Next ==
  \/ \E v \in SalaryChoices : SetStartSalary(v)
  \/ Toggle2022
  \/ Toggle2023
  \/ Toggle2024
  \/ \E e \in ErosionIndices : SelectErosionIndex(e)

Spec == Init /\ [][Next]_vars

\* ---------------------------------------------------------------------
\* calculate_real_term_change applied to a trajectory and itself: the
\* inputs are the trajectories of any run of the script
SelfInit ==
  /\ start_salary \in SalaryChoices
  /\ apply_2022_adj \in BOOLEAN /\ apply_2023_adj \in BOOLEAN
  /\ apply_2024_adj \in BOOLEAN
  /\ erosion_index = "CPIH"
  /\ Ran(script_table[start_salary, apply_2022_adj, apply_2023_adj,
                      apply_2024_adj, erosion_index])
  /\ nominal_trajectory = <<>> /\ inflation_trajectory = <<>> /\ real_change = <<>>

Traj(mode) ==
  CASE mode = "successful"  -> sal_successful
    [] mode = "verystrong"  -> sal_verystrong
    [] mode = "outstanding" -> sal_outstanding
    [] mode = "cpih"        -> inf_cpih
    [] mode = "cpi"         -> inf_cpi
    [] mode = "rpi"         -> inf_rpi

Meta(mode) ==
  CASE mode = "successful"  -> m_successful
    [] mode = "verystrong"  -> m_verystrong
    [] mode = "outstanding" -> m_outstanding
    [] mode = "cpih"        -> m_cpih
    [] mode = "cpi"         -> m_cpi
    [] mode = "rpi"         -> m_rpi

SelfReference(mode) ==
  /\ \E t \in {Traj(mode)} :
       /\ nominal_trajectory' = t
       /\ inflation_trajectory' = t
       /\ real_change' = calculate_real_term_change(t, t, start_salary)
  /\ UNCHANGED <<widgets, trajectory_globals, erosion_globals>>

SelfNext == \E mode \in Modes : SelfReference(mode)

SelfSpec == SelfInit /\ [][SelfNext]_vars

\* ---------------------------------------------------------------------
\* Properties

Positions == 1..Len(years)
LaterPositions == 2..Len(years)

BaseRate(mode, i) == pay_rates[years[i]][tier_index(mode)]

IndexName(mode) ==
  IF mode = "cpih" THEN "CPIH" ELSE IF mode = "cpi" THEN "CPI" ELSE "RPI"

float_ge(a, b) == float_le(b, a)

\* the delta of the 2022 bands for a value v
Band2022(v) ==
  IF float_le(v, float_from_int(30000)) THEN 2
  ELSE IF float_le(v, float_from_int(50000)) THEN 1 ELSE 0

\* the delta of the 2024 bands for a value v
Band2024(v) ==
  IF float_lt(v, float_from_int(37000)) THEN 1
  ELSE IF float_gt(v, float_from_int(50000)) THEN -1 ELSE 0

\* the rule table: year, its toggle, its delta for the value before the step
RuleDelta(year, v) ==
  IF year = 2022 /\ apply_2022_adj THEN Band2022(v)
  ELSE IF year = 2023 /\ apply_2023_adj THEN 2
  ELSE IF year = 2024 /\ apply_2024_adj THEN Band2024(v)
  ELSE 0

AllTogglesOff == ~apply_2022_adj /\ ~apply_2023_adj /\ ~apply_2024_adj

\* C1: every trajectory has one value and one rate per period (6), its
\* first value is the starting salary, and each later value is the previous
\* value times (1 + the rate recorded for that period / 100).
C1_CompoundingRelation ==
  \A mode \in Modes :
    /\ Len(Traj(mode)) = Len(years)
    /\ Len(Meta(mode)) = Len(years)
    /\ Traj(mode)[1] = float_from_int(start_salary)
    /\ \A i \in LaterPositions :
         Traj(mode)[i] =
           float_mul(Traj(mode)[i - 1],
                     float_add(float_from_int(1),
                               float_truediv(Meta(mode)[i], float_from_int(100))))

C1_Witness ==
  /\ start_salary = 29300 /\ ~apply_2023_adj
  /\ Len(sal_verystrong) = 6
  /\ float_gt(sal_verystrong[6], sal_verystrong[5])
  /\ float_gt(inf_rpi[6], inf_rpi[2])

\* C2: the salary thresholds of the 2022 and 2024 rules are tested on the
\* running value before the year's step - not on the starting salary and not
\* on the value after the year's raise; a trajectory that starts at or below
\* 30000 and has passed 30000 by 2022 gets +1, not +2.
C2_ThresholdOnRunningValue ==
  \A mode \in SalaryModes :
    /\ apply_2022_adj =>
         Meta(mode)[3] = float_add(BaseRate(mode, 3),
                                   float_from_int(Band2022(Traj(mode)[2])))
    /\ apply_2024_adj =>
         Meta(mode)[5] = float_add(BaseRate(mode, 5),
                                   float_from_int(Band2024(Traj(mode)[4])))

C2_Witness ==
  /\ apply_2022_adj
  /\ start_salary <= 30000
  /\ float_gt(sal_verystrong[2], float_from_int(30000))
  /\ m_verystrong[3] = float_add(BaseRate("verystrong", 3), float_from_int(1))
  /\ Band2022(sal_successful[2]) # Band2022(sal_successful[3])

\* C3: the rate of a salary trajectory for a year is the tier's base rate
\* plus the delta of the rule of that year when the rule's toggle is on and
\* its band matches; for 2021, 2025 and any year whose toggle is off it is
\* the base rate.
C3_EffectiveRate ==
  \A mode \in SalaryModes : \A i \in LaterPositions :
    /\ Meta(mode)[i] = float_add(BaseRate(mode, i),
                                 float_from_int(RuleDelta(years[i], Traj(mode)[i - 1])))
    /\ (\/ years[i] \in {2021, 2025}
        \/ years[i] = 2022 /\ ~apply_2022_adj
        \/ years[i] = 2023 /\ ~apply_2023_adj
        \/ years[i] = 2024 /\ ~apply_2024_adj) => Meta(mode)[i] = BaseRate(mode, i)

C3_Witness ==
  /\ start_salary = 52000
  /\ apply_2022_adj /\ ~apply_2023_adj /\ apply_2024_adj
  /\ m_successful[3] = BaseRate("successful", 3)
  /\ m_successful[4] = BaseRate("successful", 4)
  /\ m_successful[5] = float_add(BaseRate("successful", 5), float_from_int(-1))

\* C4 (as written): the rate recorded for the base period is 0 for a salary
\* trajectory, while for an index trajectory it is that index's table rate.
C4_BasePeriodAsymmetry ==
  /\ \A mode \in SalaryModes : Meta(mode)[1] = FloatZero
  /\ \A mode \in IndexModes :
       \E y \in DOMAIN inflation_data[IndexName(mode)] :
         Meta(mode)[1] = inflation_data[IndexName(mode)][y]

\* C4 (amended): the rate recorded for the base period is 0 for all six
\* trajectories and the base-period value is the starting salary; an index
\* trajectory's rates for 2021..2025 are the index's table rates, so its
\* compounding starts in 2021 like a salary's.
C4_BasePeriodZeroForAll ==
  /\ \A mode \in Modes :
       /\ Meta(mode)[1] = FloatZero
       /\ Traj(mode)[1] = float_from_int(start_salary)
  /\ \A mode \in IndexModes :
       /\ DOMAIN inflation_data[IndexName(mode)] = {years[i] : i \in LaterPositions}
       /\ \A i \in LaterPositions :
            Meta(mode)[i] = inflation_data[IndexName(mode)][years[i]]

C4_Witness ==
  /\ erosion_index = "RPI" /\ start_salary # 40000
  /\ m_rpi[1] = FloatZero /\ m_rpi[2] # FloatZero
  /\ m_outstanding[1] = FloatZero
  /\ inf_rpi[1] = sal_outstanding[1]

RECURSIVE BNToInt(_)
BNToInt(n) == IF n = <<>> THEN 0 ELSE n[1] + Limb * BNToInt(Tail(n))

\* a positive value below 2^52 in tenths, rounded half up
RoundTenths(v) ==
  (BNToInt(BNShr(BNMulSmall(v.man, 10), (0 - v.exp) - 1)) + 1) \div 2

RECURSIVE BaseCompound(_, _)
BaseCompound(mode, i) ==
  IF i = 1 THEN float_from_int(start_salary)
  ELSE float_mul(BaseCompound(mode, i - 1),
                 float_add(float_from_int(1),
                           float_truediv(BaseRate(mode, i), float_from_int(100))))

PureBaseCompounding ==
  \A mode \in SalaryModes : \A i \in LaterPositions :
    /\ Meta(mode)[i] = BaseRate(mode, i)
    /\ Traj(mode)[i] = BaseCompound(mode, i)

FirstFourTenths == [i \in 1..4 |-> RoundTenths(sal_successful[i])]

\* C5 (as written): with all three toggles off every salary trajectory is
\* pure base-rate compounding, and the successful trajectory from 40000
\* begins 40000, 40920.0, 41861.2, 42823.4.
C5_BaseCompoundingExample ==
  AllTogglesOff =>
    /\ PureBaseCompounding
    /\ start_salary = 40000 => FirstFourTenths = <<400000, 409200, 418612, 428234>>

\* C5 (amended): with all three toggles off every salary trajectory is pure
\* base-rate compounding, and the successful trajectory from 40000 begins
\* 40000, 40920.0, 41861.2, 42824.0 (to one decimal).
C5_BaseCompounding ==
  AllTogglesOff =>
    /\ PureBaseCompounding
    /\ start_salary = 40000 => FirstFourTenths = <<400000, 409200, 418612, 428240>>

C5_Witness ==
  /\ AllTogglesOff /\ start_salary = 40000
  /\ RoundTenths(sal_successful[4]) = 428240
  /\ m_successful[4] = BaseRate("successful", 4)

float_abs(a) == [a EXCEPT !.sign = 1]

\* 100 * 2^-52
RoundingBound == [sign |-> 1, man |-> BNShl(BNFromInt(100), MantBits - 7), exp |-> -98]

SelfCalled == real_change # <<>>

\* C6 (as written): calculate_real_term_change of a trajectory against
\* itself is exactly 0 in every period.
C6_SelfReferenceExactlyZero ==
  SelfCalled => \A i \in Positions : real_change[i] = FloatZero

\* C6 (amended): calculate_real_term_change of a trajectory against itself
\* is exactly 0 in the base period and within floating-point rounding of 0,
\* at most 100 * 2^-52 (about 2.3e-14) in magnitude, in every period.
C6_SelfReferenceZeroUpToRounding ==
  SelfCalled =>
    /\ real_change # ZeroDivisionError
    /\ real_change[1] = FloatZero
    /\ \A i \in Positions : float_le(float_abs(real_change[i]), RoundingBound)

C6_Witness ==
  /\ SelfCalled
  /\ nominal_trajectory = inflation_trajectory
  /\ nominal_trajectory = sal_successful
  /\ \E i \in LaterPositions : real_change[i] # FloatZero

\* C7: a change of the erosion index alone leaves the values and the rates
\* of all six trajectories as they were.
C7_ErosionIndexFrame ==
  [][(/\ erosion_index' # erosion_index
      /\ start_salary' = start_salary
      /\ apply_2022_adj' = apply_2022_adj
      /\ apply_2023_adj' = apply_2023_adj
      /\ apply_2024_adj' = apply_2024_adj)
     => \A mode \in Modes : Traj(mode)' = Traj(mode) /\ Meta(mode)' = Meta(mode)]_vars

C7_Witness ==
  /\ erosion_index = "RPI"
  /\ ref_traj = inf_rpi
  /\ ref_traj # inf_cpih
  /\ real_successful #
       script_table[start_salary, apply_2022_adj, apply_2023_adj,
                    apply_2024_adj, "CPIH"].real_successful
  /\ sal_successful =
       script_table[start_salary, apply_2022_adj, apply_2023_adj,
                    apply_2024_adj, "CPIH"].sal_successful

\* C8: every value of every index trajectory is strictly positive, so the
\* erosion computation never divides by zero.
C8_IndexValuesPositive ==
  /\ start_salary > 0
  /\ \A mode \in IndexModes : \A i \in Positions :
       float_gt(Traj(mode)[i], FloatZero)
  /\ \A i \in Positions : float_gt(ref_traj[i], FloatZero)
  /\ real_successful # ZeroDivisionError
  /\ real_verystrong # ZeroDivisionError
  /\ real_outstanding # ZeroDivisionError

C8_Witness ==
  /\ erosion_index = "CPI" /\ start_salary # 40000
  /\ float_gt(inf_cpi[6], inf_cpi[1])
  /\ Len(real_outstanding) = 6
  /\ real_outstanding[6] # FloatZero

\* C9 (as written): in every period outstanding >= verystrong >= successful.
C9_TierOrdering ==
  \A i \in Positions :
    /\ float_ge(sal_outstanding[i], sal_verystrong[i])
    /\ float_ge(sal_verystrong[i], sal_successful[i])

\* C9 (amended): in every period outstanding >= verystrong and outstanding
\* >= successful; verystrong >= successful in every period except 2022 when
\* the 2022 rule is on, where a verystrong trajectory that has just passed a
\* threshold of the rule gets a smaller delta and can fall below successful.
C9_TierOrderingExcept2022 ==
  \A i \in Positions :
    /\ float_ge(sal_outstanding[i], sal_verystrong[i])
    /\ float_ge(sal_outstanding[i], sal_successful[i])
    /\ (years[i] # 2022 \/ ~apply_2022_adj) =>
         float_ge(sal_verystrong[i], sal_successful[i])

C9_Witness ==
  /\ apply_2022_adj
  /\ float_lt(sal_verystrong[3], sal_successful[3])
  /\ float_gt(sal_verystrong[2], sal_successful[2])
  /\ float_gt(sal_verystrong[4], sal_successful[4])

\* C10: every rate of a salary trajectory after the base period is strictly
\* positive - the only negative delta, -1, meets a base rate of 2.30 or
\* more - so every salary trajectory is strictly increasing.
C10_SalaryStrictlyIncreasing ==
  \A mode \in SalaryModes : \A i \in LaterPositions :
    /\ float_gt(Meta(mode)[i], FloatZero)
    /\ float_gt(Traj(mode)[i], Traj(mode)[i - 1])

C10_Witness ==
  /\ apply_2024_adj
  /\ \E mode \in SalaryModes :
       /\ float_lt(Meta(mode)[5], BaseRate(mode, 5))
       /\ float_gt(Traj(mode)[5], Traj(mode)[4])

====
